---- MODULE Spec2Model ----
(***************************************************************************)
(* Sentinel metrics API (remote-source variant, src/README.md:385-618;     *)
(* local variant, src/README.md:620-846).                                  *)
(*                                                                         *)
(* Numbers.  A JavaScript value is a record [t, v]: t is the kind of the   *)
(* value and v its magnitude when t = "number".  Percentages are counted   *)
(* in hundredths of a percent (12.4 % is 1240), so that the rounding to    *)
(* one decimal is a real operation; uptime is counted in whole seconds;    *)
(* container counts are plain integers.  The clock is counted in           *)
(* milliseconds.                                                           *)
(***************************************************************************)
EXTENDS Integers, Sequences, FiniteSets, TLC

VARIABLES now, cachedMetrics, cacheTimestamp, reqs, wire, call

vars == <<now, cachedMetrics, cacheTimestamp, reqs, wire, call>>

(***************************************************************************)
(* JavaScript values                                                       *)
(***************************************************************************)
Val(t, v) == [t |-> t, v |-> v]
Num(n) == Val("number", n)
Undefined == Val("undefined", 0)
JsNull == Val("null", 0)
JsString == Val("string", 0)
JsObject == Val("object", 0)
PosInf == Val("Infinity", 0)
NegInf == Val("-Infinity", 0)
NaN == Val("NaN", 0)

\* typeof x === 'number'
TypeofNumber(x) == x.t \in {"number", "Infinity", "-Infinity", "NaN"}

\* a >= b on two values whose typeof is 'number'
JsGE(a, b) ==
  CASE a.t = "NaN" \/ b.t = "NaN" -> FALSE
    [] a.t = "Infinity" -> TRUE
    [] b.t = "-Infinity" -> TRUE
    [] a.t = "-Infinity" -> FALSE
    [] b.t = "Infinity" -> FALSE
    [] OTHER -> a.v >= b.v

\* a percentage given in whole percent, in the unit of the model
Pct(n) == Num(n * 100)

RoundTenth_int(x) ==
  IF x.t = "number" THEN Num(((x.v + 50) \div 100) * 100) ELSE x

\* Math.round(x * 10) / 10: to one decimal, halves towards +Infinity
RoundTenth(x) ==
  IF x.t = "number" THEN Num(((x.v + 5) \div 10) * 10) ELSE x

(***************************************************************************)
(* Status classifier                                                       *)
(***************************************************************************)
criticalThreshold == 90
warningThreshold == 75

getMetricStatus_gt(percentage) ==
  IF JsGE(percentage, Pct(criticalThreshold)) /\ percentage # Pct(criticalThreshold)
  THEN "critical"
  ELSE IF JsGE(percentage, Pct(warningThreshold)) THEN "warning" ELSE "healthy"

getMetricStatus(percentage) ==
  IF JsGE(percentage, Pct(criticalThreshold)) THEN "critical"
  ELSE IF JsGE(percentage, Pct(warningThreshold)) THEN "warning"
  ELSE "healthy"

(***************************************************************************)
(* Uptime formatting                                                       *)
(***************************************************************************)
Dash == "-"  \* stands for the em dash U+2014 of the source

formatUptime_mod(seconds) ==
  IF ~TypeofNumber(seconds) \/ seconds.t = "NaN" \/ ~JsGE(seconds, Num(0))
  THEN Dash
  ELSE IF seconds.t = "Infinity" THEN "Infinityd NaNh NaNm"
  ELSE ToString(seconds.v \div 86400) \o "d "
       \o ToString((seconds.v % 86400) \div 3600) \o "h "
       \o ToString((seconds.v % 86400) \div 60) \o "m"

formatUptime(seconds) ==
  IF ~TypeofNumber(seconds) \/ seconds.t = "NaN" \/ ~JsGE(seconds, Num(0))
  THEN Dash
  ELSE IF seconds.t = "Infinity" THEN "Infinityd NaNh NaNm"
  ELSE ToString(seconds.v \div 86400) \o "d "
       \o ToString((seconds.v % 86400) \div 3600) \o "h "
       \o ToString((seconds.v % 3600) \div 60) \o "m"

(***************************************************************************)
(* Container probe (src/README.md:495-518, 757-780)                        *)
(* The standard output of a count query is a sequence of characters.       *)
(***************************************************************************)
Digits == <<"0", "1", "2", "3", "4", "5", "6", "7", "8", "9">>

IsDigit(c) == \E i \in 1..Len(Digits) : Digits[i] = c

DigitVal(c) == (CHOOSE i \in 1..Len(Digits) : Digits[i] = c) - 1

IsSpace(c) == c \in {" ", "\t", "\n", "\r"}

TrimStart(s) ==
  LET from[t \in Seq(STRING)] ==
        IF t # <<>> /\ IsSpace(Head(t)) THEN from[Tail(t)] ELSE t
  IN from[s]

TrimEnd(s) ==
  LET upto[t \in Seq(STRING)] ==
        IF t # <<>> /\ IsSpace(t[Len(t)]) THEN upto[SubSeq(t, 1, Len(t) - 1)] ELSE t
  IN upto[s]

\* String.prototype.trim
trim(s) == TrimEnd(TrimStart(s))

\* the value of the longest prefix of decimal digits of s, continuing acc
DigitsPrefix(s, acc) ==
  LET value[t \in Seq(STRING), a \in Nat] ==
        IF t # <<>> /\ IsDigit(Head(t))
        THEN value[Tail(t), a * 10 + DigitVal(Head(t))]
        ELSE a
  IN value[s, acc]

\* parseInt(s, 10): blanks, an optional sign, then decimal digits; NaN when
\* no digit follows
parseInt(s) ==
  LET signed[t \in Seq(STRING)] ==
        LET neg == t # <<>> /\ Head(t) = "-"
            u == IF t # <<>> /\ Head(t) \in {"-", "+"} THEN Tail(t) ELSE t
        IN IF u = <<>> \/ ~IsDigit(Head(u)) THEN NaN
           ELSE Num(IF neg THEN 0 - DigitsPrefix(u, 0) ELSE DigitsPrefix(u, 0))
  IN signed[TrimStart(s)]

\* x || 0 for a value of parseInt
OrZero(x) ==
  LET or[v \in [t : STRING, v : Int]] == IF v.t = "NaN" \/ v = Num(0) THEN 0 ELSE v.v
  IN or[x]

\* the catch branch of getContainerMetrics
ContainerFallback == [running |-> 0, total |-> 0, status |-> "unknown"]

ContainerCounts_le(runningOutput, totalOutput) ==
  LET counts[running \in Int, total \in Int] ==
        [running |-> running, total |-> total,
         status |-> IF running <= total THEN "healthy" ELSE "warning"]
  IN counts[OrZero(parseInt(trim(runningOutput))), OrZero(parseInt(trim(totalOutput)))]

\* the try branch of getContainerMetrics once both queries have answered
ContainerCounts(runningOutput, totalOutput) ==
  LET counts[running \in Int, total \in Int] ==
        [running |-> running, total |-> total,
         status |-> IF running = total THEN "healthy" ELSE "warning"]
  IN counts[OrZero(parseInt(trim(runningOutput))), OrZero(parseInt(trim(totalOutput)))]

\* the result of running a block: it returned value, or it threw
Return(value) == [threw |-> FALSE, value |-> value]
Throw == [threw |-> TRUE, value |-> <<>>]

\* a count query that failed: execAsync rejects
ExecError == <<"E", "R", "R">>

\* the try block: either await rejects, or both answer and are parsed
ContainerTry(o1, o2) ==
  IF o1 = ExecError THEN Throw
  ELSE IF o2 = ExecError THEN Throw
  ELSE Return(ContainerCounts(o1, o2))

getContainerMetrics_nocatch(o1, o2) == ContainerTry(o1, o2)

\* getContainerMetrics as a whole, o1 and o2 the outcomes of the two queries
getContainerMetrics(o1, o2) ==
  IF ContainerTry(o1, o2).threw THEN Return(ContainerFallback) ELSE ContainerTry(o1, o2)

(***************************************************************************)
(* The count queries `docker ps -q | wc -l` and `docker ps -a -q | wc -l`  *)
(* (src/README.md:498-499).  exec runs the pipeline in a shell; the exit   *)
(* status of a pipeline is that of its last command, and `wc -l` counts    *)
(* the lines of whatever docker wrote to its standard output.              *)
(***************************************************************************)
\* the decimal numeral of a natural number
RECURSIVE Decimal(_)
Decimal(n) ==
  IF n < 10 THEN <<Digits[n + 1]>> ELSE Decimal(n \div 10) \o <<Digits[(n % 10) + 1]>>

\* what `wc -l` prints for n lines of input
WcL(n) == Decimal(n) \o <<"\n">>

\* docker ps lists n containers, one id a line
DockerLists(n) == [ok |-> TRUE, lines |-> n]

\* docker ps fails and writes to standard error only: the runtime is not
\* installed, or the daemon socket may not be opened
DockerAbsent == [ok |-> FALSE, lines |-> 0, why |-> "not found"]
DockerDenied == [ok |-> FALSE, lines |-> 0, why |-> "permission denied"]

\* the shell of exec cannot be started
NoShell == [ok |-> FALSE, lines |-> 0, why |-> "spawn"]

\* the outcome of execAsync('docker ps ... | wc -l') given that of docker
ExecPipeline(docker) ==
  IF docker = NoShell THEN ExecError
  ELSE WcL(IF docker.ok THEN docker.lines ELSE 0)

(***************************************************************************)
(* Local variant: getDiskMetrics (src/README.md:701-731).  Sizes and       *)
(* percentages are counted in hundredths.  exec runs `df -h / | tail -n 1` *)
(* in a shell: the exit status is that of tail, which prints the last line *)
(* of whatever df wrote to its standard output.                            *)
(***************************************************************************)
\* s without its longest prefix of decimal digits
RECURSIVE DropDigits(_)
DropDigits(s) == IF s # <<>> /\ IsDigit(Head(s)) THEN DropDigits(Tail(s)) ELSE s

\* the first two decimals of a fraction, in hundredths
Hundredths(f) ==
  (IF f # <<>> /\ IsDigit(Head(f)) THEN 10 * DigitVal(Head(f)) ELSE 0)
    + (IF Len(f) > 1 /\ IsDigit(f[1]) /\ IsDigit(f[2]) THEN DigitVal(f[2]) ELSE 0)

\* parseFloat of a string of characters: blanks, an optional sign, digits,
\* an optional fraction; NaN when no number starts the string
parseFloat(s) ==
  LET t == TrimStart(s)
      neg == t # <<>> /\ Head(t) = "-"
      u == IF t # <<>> /\ Head(t) \in {"-", "+"} THEN Tail(t) ELSE t
      int == u # <<>> /\ IsDigit(Head(u))
      rest == DropDigits(u)
      frac == IF rest # <<>> /\ Head(rest) = "." THEN Tail(rest) ELSE <<>>
      abs == 100 * DigitsPrefix(u, 0) + Hundredths(frac)
  IN IF ~int /\ (frac = <<>> \/ ~IsDigit(Head(frac))) THEN NaN
     ELSE Num(IF neg THEN 0 - abs ELSE abs)

\* s.split(/\s+/) for a trimmed string, cur the token being read
RECURSIVE SplitBlanks(_, _)
SplitBlanks(s, cur) ==
  IF s = <<>> THEN <<cur>>
  ELSE IF IsSpace(Head(s))
       THEN <<cur>> \o SplitBlanks(TrimStart(s), <<>>)
       ELSE SplitBlanks(Tail(s), Append(cur, Head(s)))

\* parseFloat(parts[i]) with i counted from 0; parts[i] is undefined, and
\* the result NaN, past the end
ParsePart(parts, i) == IF i + 1 <= Len(parts) THEN parseFloat(parts[i + 1]) ELSE NaN

\* the catch branch
DiskFallback ==
  [used |-> Num(24500), total |-> Num(51200), percentage |-> Num(4785),
   status |-> "healthy"]

\* the try branch once the command has answered
DiskParse(stdout) ==
  LET parts == SplitBlanks(trim(stdout), <<>>)
      percentage == ParsePart(parts, 4)
  IN [used |-> ParsePart(parts, 2), total |-> ParsePart(parts, 1),
      percentage |-> percentage, status |-> getMetricStatus(percentage)]

\* getDiskMetrics as a whole, o the outcome of the command
getDiskMetrics(o) ==
  IF o = ExecError THEN Return(DiskFallback) ELSE Return(DiskParse(o))

\* df writes these lines to its standard output
DfPrints(lines) == [ok |-> TRUE, lines |-> lines]

\* df fails (no such command, no such file system) and writes to standard
\* error only
DfFails == [ok |-> FALSE, lines |-> <<>>]

\* the outcome of execAsync('df -h / | tail -n 1') given that of df
ExecDf(df) ==
  IF df = NoShell THEN ExecError
  ELSE IF df.lines = <<>> THEN <<>>
  ELSE df.lines[Len(df.lines)]

(***************************************************************************)
(* GET /api/metrics, remote variant: the body (src/README.md:532-585)      *)
(* A payload of the metrics service is its parsed JSON body: JsNull, or a  *)
(* record of the four values vmMetrics?.cpu?.usage_percent,                *)
(* vmMetrics?.memory?.used_percent, vmMetrics?.disk?.used_percent and      *)
(* vmMetrics?.uptime?.seconds.                                             *)
(***************************************************************************)
Payload(c, m, d, u) == [cpu |-> c, memory |-> m, disk |-> d, uptime |-> u]

\* vmMetrics?.<field>?.<key>
Field(vmMetrics, f) == IF vmMetrics = JsNull THEN Undefined ELSE vmMetrics[f]

\* typeof x === 'number' ? Math.round(x * 10) / 10 : null
SanitizePercent(x) == IF TypeofNumber(x) THEN RoundTenth(x) ELSE JsNull

\* typeof x === 'number' ? x : null
SanitizeSeconds(x) == IF TypeofNumber(x) THEN x ELSE JsNull

\* v !== null ? v : 0
OrZeroNull(v) == IF v # JsNull THEN v ELSE Num(0)

PercentMetric_all(v, others) ==
  IF v # JsNull /\ (\A o \in others : o # JsNull) THEN getMetricStatus(v) ELSE "unknown"

PercentStatus(v) == IF v # JsNull THEN getMetricStatus(v) ELSE "unknown"

BuildMetrics_coupled(vmMetrics, containers, ts) ==
  LET cpuUsage == SanitizePercent(Field(vmMetrics, "cpu"))
      memUsed == SanitizePercent(Field(vmMetrics, "memory"))
      diskUsed == SanitizePercent(Field(vmMetrics, "disk"))
      uptimeSeconds == SanitizeSeconds(Field(vmMetrics, "uptime"))
  IN [cpu |-> [usage |-> OrZeroNull(cpuUsage), status |-> PercentStatus(cpuUsage)],
      memory |-> [percentage |-> OrZeroNull(memUsed),
                  status |-> PercentMetric_all(memUsed, {cpuUsage})],
      disk |-> [percentage |-> OrZeroNull(diskUsed), status |-> PercentStatus(diskUsed)],
      uptime |-> [seconds |-> OrZeroNull(uptimeSeconds),
                  formatted |-> formatUptime(uptimeSeconds),
                  status |-> IF uptimeSeconds # JsNull THEN "healthy" ELSE "unknown"],
      containers |-> containers,
      timestamp |-> ts]

\* the try branch of the handler after Promise.all has resolved
BuildMetrics(vmMetrics, containers, ts) ==
  LET cpuUsage == SanitizePercent(Field(vmMetrics, "cpu"))
      memUsed == SanitizePercent(Field(vmMetrics, "memory"))
      diskUsed == SanitizePercent(Field(vmMetrics, "disk"))
      uptimeSeconds == SanitizeSeconds(Field(vmMetrics, "uptime"))
  IN [cpu |-> [usage |-> OrZeroNull(cpuUsage), status |-> PercentStatus(cpuUsage)],
      memory |-> [percentage |-> OrZeroNull(memUsed), status |-> PercentStatus(memUsed)],
      disk |-> [percentage |-> OrZeroNull(diskUsed), status |-> PercentStatus(diskUsed)],
      uptime |-> [seconds |-> OrZeroNull(uptimeSeconds),
                  formatted |-> formatUptime(uptimeSeconds),
                  status |-> IF uptimeSeconds # JsNull THEN "healthy" ELSE "unknown"],
      containers |-> containers,
      timestamp |-> ts]

\* the catch branch of the handler
FallbackMetrics(ts) ==
  [cpu |-> [usage |-> Num(0), status |-> "unknown"],
   memory |-> [percentage |-> Num(0), status |-> "unknown"],
   disk |-> [percentage |-> Num(0), status |-> "unknown"],
   uptime |-> [seconds |-> Num(0), formatted |-> Dash, status |-> "unknown"],
   containers |-> ContainerFallback,
   timestamp |-> ts]

\* res.json(metrics) and res.status(200).json(fallback)
MetricsResponse(body) == [status |-> 200, body |-> body]

FallbackResponse_500(ts) ==
  [status |-> 500, body |-> [error |-> "Unable to retrieve metrics", timestamp |-> ts]]

FallbackResponse(ts) == [status |-> 200, body |-> FallbackMetrics(ts)]

CatchMetrics_leak(error, ts) ==
  [status |-> 200, body |-> [FallbackMetrics(ts) EXCEPT !.uptime.formatted = error]]

\* the catch branch of the handler: error.message goes to console.error, the
\* response is the fallback
CatchMetrics(error, ts) == FallbackResponse(ts)

(***************************************************************************)
(* Bounds and inputs of the model                                          *)
(***************************************************************************)
MaxReqs == 2     \* requests handled in one run
MaxTicks == 5    \* the clock runs from 0 to MaxTicks seconds
MaxLateTicks == 2 \* ticks of the slow clock, under which requests time out

ReqIds == 1..MaxReqs

\* the example payload of the service contract (src/README.md:90-95)
ExamplePayload == Payload(Num(1240), Num(5710), Num(6380), Num(184293))

\* an untrusted payload: a percentage above 100, a percentage that rounds up
\* into the next band, an overflowing JSON number (1e999 parses to Infinity)
\* and a missing field; it also carries a field the API does not read
UntrustedPayload ==
  Payload(Num(15000), Num(7496), PosInf, Undefined) @@ [hostname |-> "vm-01.internal"]

\* parsed bodies the metrics service may answer with in a run of the server
FetchPayloads == {JsNull, ExamplePayload, UntrustedPayload}

\* what `wc -l` prints: optional blanks, a count, a newline
Stdouts == {<<"1", "2", "\n">>, <<" ", " ", "1", "5", "\n">>}

\* arguments of getMetricStatus: percentages around the thresholds and
\* outside [0,100], and the two infinities
PercentInputs ==
  {Num(n) : n \in {0 - 500, 0, 1240, 7499, 7500, 7501, 8999, 9000, 9001, 10000, 15000}}
    \cup {PosInf, NegInf}

\* arguments of formatUptime
SecondsInputs ==
  {Num(n) : n \in {0 - 86400, 0 - 1, 0, 59, 60, 3599, 3600, 86399, 86400, 90061, 184293}}
    \cup {NaN, PosInf, NegInf, JsNull, Undefined, JsString, JsObject}

\* values of one field of a payload: not a number at all, numbers in and
\* out of range, overflowing numbers
FieldInputs ==
  {Undefined, JsNull, JsString, JsObject, PosInf, NegInf,
   Num(0 - 5), Num(1240), Num(7496), Num(9250), Num(15000)}

\* payloads given to the body of the handler
PayloadInputs ==
  {JsNull, ExamplePayload}
    \cup {Payload(c, m, d, u) : c \in FieldInputs, m \in {Num(5710), JsString},
                                d \in {Num(6380), Undefined, PosInf},
                                u \in {Num(184293), JsNull, Num(0 - 5), PosInf}}
    \cup {Payload(Num(1240), m, d, u) : m \in FieldInputs, d \in FieldInputs,
                                        u \in {Num(184293), JsObject}}
    \cup {Payload(Num(1240), Num(5710), Num(6380), u) : u \in FieldInputs}

\* outcomes of docker ps in a count query
DockerOutcomes ==
  {DockerLists(n) : n \in {0, 3, 12, 15}} \cup {DockerAbsent, DockerDenied, NoShell}

\* lines of `df -h /`
DfHeader ==
  <<"F", "i", "l", "e", "s", "y", "s", "t", "e", "m", " ", "S", "i",
    "z", "e", " ", "U", "s", "e", "d", " ", "A", "v", "a", "i", "l",
    " ", "U", "s", "e", "%", " ", "M", "o", "u", "n", "t", "e", "d",
    " ", "o", "n", "\n">>

DfRow ==
  <<"/", "d", "e", "v", "/", "s", "d", "a", "1", " ", " ", "5", "0",
    "0", "G", " ", " ", "2", "4", "0", "G", " ", " ", "2", "6", "0",
    "G", " ", " ", "4", "8", "%", " ", "/", "\n">>

DfRowFull ==
  <<"o", "v", "e", "r", "l", "a", "y", " ", "5", "9", "G", " ", "5",
    "4", ".", "5", "G", " ", "2", ".", "1", "G", " ", "9", "7", "%",
    " ", "/", "\n">>

\* the row of a file system with a long name, which is wrapped: the last
\* line starts with the size
DfRowWrapped ==
  <<" ", " ", " ", " ", " ", " ", "1", ".", "8", "T", " ", " ", "1",
    ".", "2", "T", " ", " ", "6", "0", "0", "G", " ", " ", "6", "7",
    "%", " ", "/", "\n">>

\* outcomes of df in getDiskMetrics
DfOutcomes ==
  {DfPrints(<<DfHeader, DfRow>>), DfPrints(<<DfHeader, DfRowFull>>),
   DfPrints(<<DfHeader, DfRowWrapped>>), DfPrints(<<DfHeader>>), DfFails, NoShell}

\* outcomes of a count query: what `wc -l` prints, nothing, text that is no
\* number, or a failure
ExecOutcomes ==
  Stdouts \cup {<<"0", "\n">>, <<"7", "\n">>, <<>>, <<"\n">>, <<"s", "h", ":", " ", "1">>,
                ExecError}

\* results of getContainerMetrics given to the body of the handler
ContainerInputs ==
  {ContainerFallback, [running |-> 12, total |-> 15, status |-> "warning"]}

\* errors passed to the global error handler: those of express.json() (a
\* body that is no JSON, a body that is too large) and an Error without a
\* status
Errors ==
  {[status |-> Num(400), message |-> "Unexpected token } in JSON at position 1"],
   [status |-> Num(413), message |-> "request entity too large"],
   [status |-> Undefined, message |-> "Cannot read properties of undefined"]}

\* ways a fetch fails: non-2xx status, network error, abort after 5 s, and a
\* body that is no JSON
FetchErrors == {"status", "network", "timeout", "parse"}

\* error.message of the error caught by fetchVMMetrics
ErrorMessage(e) ==
  CASE e = "status" -> "VM metrics service returned 503"
    [] e = "network" -> "fetch failed"
    [] e = "timeout" -> "The operation was aborted due to timeout"
    [] e = "parse" -> "Unexpected token < in JSON at position 0"

(***************************************************************************)
(* State                                                                   *)
(*   now             the clock, Date.now()                                 *)
(*   cachedMetrics   src/README.md:422                                     *)
(*   cacheTimestamp  src/README.md:423                                     *)
(*   reqs            the requests: where each handler stands               *)
(*   wire            the response written by the last step, if any        *)
(*   call            the last direct call of a helper function             *)
(***************************************************************************)
CACHE_TTL_MS == 3000
FETCH_TIMEOUT_MS == 5000
REQUEST_TIMEOUT_MS == 10000

NoCall == [fn |-> "none"]

NoResponse == [req |-> 0, status |-> 0, body |-> <<>>]

\* a request that has not arrived
NoRequest ==
  [route |-> "none",        \* none, metrics, health, other
   vm |-> "idle",          \* fetchVMMetrics: idle, fetch, json, ok, thrown
   at |-> 0,               \* const now of fetchVMMetrics, while it runs
   vmData |-> JsNull,      \* what fetchVMMetrics returned
   ct |-> "idle",          \* getContainerMetrics: idle, exec1, exec2, done
   runningOutput |-> <<>>,
   containers |-> ContainerFallback, \* what getContainerMetrics returned
   sent |-> 0,             \* responses written
   arrived |-> 0,          \* when the request arrived, while it waits
   closed |-> FALSE,       \* the socket was destroyed by the request timeout
   fetches |-> 0,          \* history: upstream requests it has issued
   logs |-> {},            \* console.error / console.warn lines
   error |-> "none",       \* error.message of the error fetchVMMetrics caught
   hit |-> FALSE,          \* history: served by the freshness branch
   cold |-> FALSE,         \* history: cachedMetrics was null at the call
   failed |-> FALSE,       \* history: its upstream fetch failed
   epoch |-> 0,            \* history: stores done before the call
   stored |-> 0]           \* history: the number of the store it did, or 0

Init ==
  /\ now = 0
  /\ cachedMetrics = JsNull
  /\ cacheTimestamp = 0
  /\ reqs = [r \in ReqIds |-> NoRequest]
  /\ wire = NoResponse
  /\ call = NoCall

\* history: the number of successful fetches that have stored their payload
Stores == Cardinality({r \in ReqIds : reqs[r].stored > 0})

(***************************************************************************)
(* fetchVMMetrics (src/README.md:437-474)                                  *)
(***************************************************************************)
\* a JavaScript truth test of the cached payload
Truthy(x) == x # JsNull

Fresh_le(t) == Truthy(cachedMetrics) /\ (t - cacheTimestamp) <= CACHE_TTL_MS

\* cachedMetrics && (now - cacheTimestamp) < CACHE_TTL_MS
Fresh(t) == Truthy(cachedMetrics) /\ (t - cacheTimestamp) < CACHE_TTL_MS

FetchStart_coalesce(rr) ==
  LET base == [rr EXCEPT !.cold = ~Truthy(cachedMetrics), !.epoch = Stores]
  IN IF Fresh(now) \/ (\E q \in ReqIds : reqs[q].vm \in {"fetch", "json"})
     THEN [base EXCEPT !.vm = "ok", !.vmData = cachedMetrics, !.hit = TRUE]
     ELSE [base EXCEPT !.vm = "fetch", !.at = now, !.fetches = @ + 1]

\* the statements up to the first await
FetchStart(rr) ==
  LET base == [rr EXCEPT !.cold = ~Truthy(cachedMetrics), !.epoch = Stores]
  IN IF Fresh(now)
     THEN [base EXCEPT !.vm = "ok", !.vmData = cachedMetrics, !.hit = TRUE]
     ELSE [base EXCEPT !.vm = "fetch", !.at = now, !.fetches = @ + 1]

CatchFetch_swallow(rr, error) ==
  [rr EXCEPT !.vm = "ok", !.vmData = cachedMetrics, !.failed = TRUE, !.at = 0,
             !.error = error, !.logs = @ \cup {"fetch error", "stale cache"}]

\* the catch branch
CatchFetch(rr, error) ==
  LET logged == [rr EXCEPT !.failed = TRUE, !.at = 0, !.error = error,
                           !.logs = @ \cup {"fetch error"}]
  IN IF Truthy(cachedMetrics)
     THEN [logged EXCEPT !.vm = "ok", !.vmData = cachedMetrics,
                         !.logs = @ \cup {"stale cache"}]
     ELSE [logged EXCEPT !.vm = "thrown"]

(***************************************************************************)
(* The handler of GET /api/metrics (src/README.md:524-587)                 *)
(***************************************************************************)
Rejected_again(rr) == ~rr.closed /\ rr.vm = "thrown"

\* Promise.all has rejected (it settles once): fetchVMMetrics has thrown, and
\* the socket is there to write to
Rejected(rr) == rr.sent = 0 /\ ~rr.closed /\ rr.vm = "thrown"

Resolved_early(rr) == rr.sent = 0 /\ ~rr.closed /\ rr.vm = "ok"

\* Promise.all has resolved: both tasks have returned
Resolved(rr) == rr.sent = 0 /\ ~rr.closed /\ rr.vm = "ok" /\ rr.ct = "done"

Handler_shared(r, settled) ==
  \E rr \in {settled} :
  /\ reqs' = [reqs EXCEPT ![r] =
       IF Rejected(rr)
       THEN [rr EXCEPT !.sent = @ + 1, !.arrived = 0, !.logs = @ \cup {"metrics error"}]
       ELSE IF Resolved(rr)
       THEN [rr EXCEPT !.sent = @ + 1, !.arrived = 0]
       ELSE rr]
  /\ wire' =
       IF Rejected(rr) THEN [req |-> r] @@ CatchMetrics(rr.error, now)
       ELSE IF Resolved(rr)
       THEN [req |-> r] @@ MetricsResponse(BuildMetrics(rr.vmData, reqs[1].containers, now))
       ELSE NoResponse

\* What the handler does once a task of Promise.all has settled: nothing
\* while the other one is pending, the fallback as soon as fetchVMMetrics
\* has thrown, the metrics when both have returned.  settled is the request
\* after the step of the task.
Handler(r, settled) ==
  \E rr \in {settled} :
  /\ reqs' = [reqs EXCEPT ![r] =
       IF Rejected(rr)
       THEN [rr EXCEPT !.sent = @ + 1, !.arrived = 0, !.logs = @ \cup {"metrics error"}]
       ELSE IF Resolved(rr)
       THEN [rr EXCEPT !.sent = @ + 1, !.arrived = 0]
       ELSE rr]
  /\ wire' =
       IF Rejected(rr) THEN [req |-> r] @@ CatchMetrics(rr.error, now)
       ELSE IF Resolved(rr)
       THEN [req |-> r] @@ MetricsResponse(BuildMetrics(rr.vmData, rr.containers, now))
       ELSE NoResponse

\* a request arrives: both tasks run up to their first await
GetMetrics(r) ==
  /\ reqs[r].route = "none"
  /\ IF r = 1 THEN TRUE ELSE reqs[r - 1].route # "none"
  /\ Handler(r, [FetchStart([reqs[r] EXCEPT !.route = "metrics", !.arrived = now])
                   EXCEPT !.ct = "exec1"])
  /\ UNCHANGED <<now, cachedMetrics, cacheTimestamp, call>>

\* await fetch(...) resolves with a 2xx response
FetchOk(r) ==
  /\ reqs[r].vm = "fetch"
  /\ Handler(r, [reqs[r] EXCEPT !.vm = "json"])
  /\ UNCHANGED <<now, cachedMetrics, cacheTimestamp, call>>

\* await fetch(...) rejects or resolves with a non-2xx response, or
\* await response.json() rejects
FetchFails(r) ==
  /\ \E e \in FetchErrors :
       /\ e = "parse" => reqs[r].vm = "json"
       /\ e \in {"status", "network"} => reqs[r].vm = "fetch"
       /\ e = "timeout" => /\ reqs[r].vm \in {"fetch", "json"}
                           /\ now - reqs[r].at >= FETCH_TIMEOUT_MS
       /\ Handler(r, CatchFetch(reqs[r], ErrorMessage(e)))
  /\ UNCHANGED <<now, cachedMetrics, cacheTimestamp, call>>

FetchStores_late(r) ==
  /\ reqs[r].vm = "json"
  /\ \E vmData \in FetchPayloads :
       /\ cachedMetrics' = vmData
       /\ cacheTimestamp' = now
       /\ Handler(r, [reqs[r] EXCEPT !.vm = "ok", !.vmData = vmData, !.at = 0,
                                     !.stored = Stores + 1])
  /\ UNCHANGED <<now, call>>

\* await response.json() resolves: the payload is cached and returned
FetchStores(r) ==
  /\ reqs[r].vm = "json"
  /\ \E vmData \in FetchPayloads :
       /\ cachedMetrics' = vmData
       /\ cacheTimestamp' = reqs[r].at
       /\ Handler(r, [reqs[r] EXCEPT !.vm = "ok", !.vmData = vmData, !.at = 0,
                                     !.stored = Stores + 1])
  /\ UNCHANGED <<now, call>>

(***************************************************************************)
(* getContainerMetrics (src/README.md:495-518)                             *)
(***************************************************************************)
\* the first count query answers
ExecRunning(r) ==
  /\ reqs[r].ct = "exec1"
  /\ \E out \in Stdouts :
       Handler(r, [reqs[r] EXCEPT !.ct = "exec2", !.runningOutput = out])
  /\ UNCHANGED <<now, cachedMetrics, cacheTimestamp, call>>

\* the second count query answers
ExecTotal(r) ==
  /\ reqs[r].ct = "exec2"
  /\ \E out \in Stdouts :
       Handler(r, [reqs[r] EXCEPT !.ct = "done", !.runningOutput = <<>>,
                      !.containers = ContainerCounts(reqs[r].runningOutput, out)])
  /\ UNCHANGED <<now, cachedMetrics, cacheTimestamp, call>>

\* either count query fails: the catch branch
ExecFails(r) ==
  /\ reqs[r].ct \in {"exec1", "exec2"}
  /\ Handler(r, [reqs[r] EXCEPT !.ct = "done", !.runningOutput = <<>>,
                                !.containers = ContainerFallback])
  /\ UNCHANGED <<now, cachedMetrics, cacheTimestamp, call>>

(***************************************************************************)
(* GET /health and the unmatched routes (src/README.md:592-599)            *)
(***************************************************************************)
HealthResponse_cache(ts) ==
  [status |-> IF cachedMetrics = JsNull THEN 503 ELSE 200,
   body |-> [status |-> "ok", timestamp |-> ts]]

\* res.json({ status: 'ok', timestamp })
HealthResponse(ts) == [status |-> 200, body |-> [status |-> "ok", timestamp |-> ts]]

\* res.status(404).json({ error: 'Not found' })
NotFoundResponse == [status |-> 404, body |-> [error |-> "Not found"]]

\* a request for /health arrives and is answered
GetHealth(r) ==
  /\ reqs[r].route = "none"
  /\ IF r = 1 THEN TRUE ELSE reqs[r - 1].route # "none"
  /\ reqs' = [reqs EXCEPT ![r] = [@ EXCEPT !.route = "health", !.sent = 1]]
  /\ wire' = [req |-> r] @@ HealthResponse(now)
  /\ UNCHANGED <<now, cachedMetrics, cacheTimestamp, call>>

\* a request for any other path arrives and is answered
NotFound(r) ==
  /\ reqs[r].route = "none"
  /\ IF r = 1 THEN TRUE ELSE reqs[r - 1].route # "none"
  /\ reqs' = [reqs EXCEPT ![r] = [@ EXCEPT !.route = "other", !.sent = 1]]
  /\ wire' = [req |-> r] @@ NotFoundResponse
  /\ UNCHANGED <<now, cachedMetrics, cacheTimestamp, call>>

(***************************************************************************)
(* The global error handler (src/README.md:602-611, 830-839).  An error is *)
(* a record of err.status and err.message; IS_PRODUCTION is fixed when the *)
(* process starts.                                                         *)
(***************************************************************************)
ErrorHandler_verbose(err, IS_PRODUCTION, ts) ==
  [status |-> IF err.status.t = "number" /\ err.status.v # 0 THEN err.status.v ELSE 500,
   body |-> [error |-> err.message, timestamp |-> ts],
   log |-> err.message]

ErrorHandler(err, IS_PRODUCTION, ts) ==
  [status |-> IF err.status.t = "number" /\ err.status.v # 0 THEN err.status.v ELSE 500,
   body |-> [error |-> IF IS_PRODUCTION THEN "Internal server error" ELSE err.message,
             timestamp |-> ts],
   log |-> err.message]

(***************************************************************************)
(* Time: a fetch is aborted FETCH_TIMEOUT_MS after it was started          *)
(***************************************************************************)
Tick ==
  /\ now < MaxTicks * 1000
  /\ \A r \in ReqIds :
       reqs[r].vm \in {"fetch", "json"} => now + 1000 - reqs[r].at <= FETCH_TIMEOUT_MS
  /\ now' = now + 1000
  /\ wire' = NoResponse
  /\ UNCHANGED <<cachedMetrics, cacheTimestamp, reqs, call>>

(***************************************************************************)
(* The request timeout (src/README.md:413-417): no listener is given, so   *)
(* a socket that has been idle for REQUEST_TIMEOUT_MS is destroyed, and    *)
(* what the handler writes later reaches nobody.                           *)
(***************************************************************************)
Waiting(rr) == rr.route = "metrics" /\ rr.sent = 0 /\ ~rr.closed

SocketTimeout(r) ==
  /\ Waiting(reqs[r])
  /\ now - reqs[r].arrived >= REQUEST_TIMEOUT_MS
  /\ reqs' = [reqs EXCEPT ![r] = [@ EXCEPT !.closed = TRUE, !.arrived = 0]]
  /\ wire' = NoResponse
  /\ UNCHANGED <<now, cachedMetrics, cacheTimestamp, call>>

\* the slow clock, which runs long enough for the request timeout: a tick
\* of it is the time a fetch may take
TickLate ==
  /\ now < MaxLateTicks * FETCH_TIMEOUT_MS
  /\ \A r \in ReqIds :
       /\ reqs[r].vm \in {"fetch", "json"} =>
            now + FETCH_TIMEOUT_MS - reqs[r].at <= FETCH_TIMEOUT_MS
       /\ Waiting(reqs[r]) =>
            now + FETCH_TIMEOUT_MS - reqs[r].arrived <= REQUEST_TIMEOUT_MS
  /\ now' = now + FETCH_TIMEOUT_MS
  /\ wire' = NoResponse
  /\ UNCHANGED <<cachedMetrics, cacheTimestamp, reqs, call>>

(***************************************************************************)
(* Direct calls of the helper functions, on arguments of the input sets:   *)
(* one call in a run                                                       *)
(***************************************************************************)
CallGetMetricStatus ==
  /\ call = NoCall
  /\ \E p \in PercentInputs :
       call' = [fn |-> "getMetricStatus", arg |-> p, out |-> getMetricStatus(p)]
  /\ UNCHANGED <<now, cachedMetrics, cacheTimestamp, reqs, wire>>

CallFormatUptime ==
  /\ call = NoCall
  /\ \E s \in SecondsInputs :
       call' = [fn |-> "formatUptime", arg |-> s, out |-> formatUptime(s)]
  /\ UNCHANGED <<now, cachedMetrics, cacheTimestamp, reqs, wire>>

CallGetContainerMetrics ==
  /\ call = NoCall
  /\ \E o1 \in ExecOutcomes, o2 \in ExecOutcomes :
       call' = [fn |-> "getContainerMetrics", arg |-> <<o1, o2>>,
                out |-> getContainerMetrics(o1, o2)]
  /\ UNCHANGED <<now, cachedMetrics, cacheTimestamp, reqs, wire>>

\* getContainerMetrics on the outcomes of docker in its two count queries
CallProbe ==
  /\ call = NoCall
  /\ \E d1 \in DockerOutcomes, d2 \in DockerOutcomes :
       call' = [fn |-> "probe", arg |-> <<d1, d2>>,
                out |-> getContainerMetrics(ExecPipeline(d1), ExecPipeline(d2))]
  /\ UNCHANGED <<now, cachedMetrics, cacheTimestamp, reqs, wire>>

\* getDiskMetrics on the outcomes of df
CallGetDiskMetrics ==
  /\ call = NoCall
  /\ \E df \in DfOutcomes :
       call' = [fn |-> "getDiskMetrics", arg |-> df, out |-> getDiskMetrics(ExecDf(df))]
  /\ UNCHANGED <<now, cachedMetrics, cacheTimestamp, reqs, wire>>

\* the global error handler on an error, in production and outside
CallErrorHandler ==
  /\ call = NoCall
  /\ \E err \in Errors, IS_PRODUCTION \in BOOLEAN :
       call' = [fn |-> "errorHandler", arg |-> <<err, IS_PRODUCTION>>,
                out |-> ErrorHandler(err, IS_PRODUCTION, now)]
  /\ UNCHANGED <<now, cachedMetrics, cacheTimestamp, reqs, wire>>

\* the body of the handler on the results of its two tasks
CallBuildMetrics ==
  /\ call = NoCall
  /\ \E vmMetrics \in PayloadInputs, containers \in ContainerInputs :
       call' = [fn |-> "metrics", arg |-> <<vmMetrics, containers>>,
                out |-> BuildMetrics(vmMetrics, containers, now)]
  /\ UNCHANGED <<now, cachedMetrics, cacheTimestamp, reqs, wire>>

(***************************************************************************)
(* Startup of the module (src/README.md:392-395, 614-618, 842-846).  A     *)
(* process is the number of app.listen calls made, the ports its servers   *)
(* hold, and whether it serves or has died of an unhandled 'error' event.  *)
(***************************************************************************)
DEFAULT_PORT == 3001

\* API_PORT of the environment: unset, or a number
Unset == [set |-> FALSE, port |-> 0]
Env(p) == [set |-> TRUE, port |-> p]

\* const PORT = process.env.API_PORT || 3001
Port(API_PORT) == IF API_PORT.set THEN API_PORT.port ELSE DEFAULT_PORT

NoProcess == [listens |-> 0, servers |-> 0, ports |-> {}, state |-> "serving"]

\* app.listen(PORT, '0.0.0.0', callback): a new server binds PORT.  Port 0
\* asks for any free port; a port that a server of this process holds
\* gives EADDRINUSE, emitted as an 'error' event that nothing listens to.
Listen(process, PORT) ==
  IF PORT # 0 /\ PORT \in process.ports
  THEN [process EXCEPT !.listens = @ + 1, !.state = "crashed"]
  ELSE [process EXCEPT !.listens = @ + 1, !.servers = @ + 1,
                       !.ports = @ \cup {PORT}]

\* the module of the remote variant has run: app.listen at line 393 and
\* again at line 614
Startup(API_PORT) ==
  Listen(Listen(NoProcess, Port(API_PORT)), Port(API_PORT))

\* the module of the local variant has run: app.listen at line 842
StartupLocal(API_PORT) == Listen(NoProcess, Port(API_PORT))

ApiPorts == {Unset, Env(8080), Env(0)}

CallStartup ==
  /\ call = NoCall
  /\ \E API_PORT \in ApiPorts, variant \in {"remote", "local"} :
       call' = [fn |-> "startup", arg |-> <<API_PORT, variant>>,
                out |-> IF variant = "remote" THEN Startup(API_PORT)
                        ELSE StartupLocal(API_PORT)]
  /\ UNCHANGED <<now, cachedMetrics, cacheTimestamp, reqs, wire>>

NextCall ==
  \/ CallGetMetricStatus
  \/ CallFormatUptime
  \/ CallGetContainerMetrics
  \/ CallProbe
  \/ CallGetDiskMetrics
  \/ CallErrorHandler
  \/ CallBuildMetrics
  \/ CallStartup

\* the helper functions, called directly
SpecCall == Init /\ [][NextCall]_vars

Next ==
  \/ \E r \in ReqIds : GetMetrics(r)
  \/ \E r \in ReqIds : FetchOk(r)
  \/ \E r \in ReqIds : FetchFails(r)
  \/ \E r \in ReqIds : FetchStores(r)
  \/ \E r \in ReqIds : ExecRunning(r)
  \/ \E r \in ReqIds : ExecTotal(r)
  \/ \E r \in ReqIds : ExecFails(r)
  \/ \E r \in ReqIds : GetHealth(r)
  \/ \E r \in ReqIds : NotFound(r)
  \/ Tick

Spec == Init /\ [][Next]_vars

\* a step of fetchVMMetrics of request r, a step of its container probe
FetchStep(r) == FetchOk(r) \/ FetchFails(r) \/ FetchStores(r)
ProbeStep(r) == ExecRunning(r) \/ ExecTotal(r) \/ ExecFails(r)

NextLate ==
  \/ \E r \in ReqIds : GetMetrics(r)
  \/ \E r \in ReqIds : FetchStep(r)
  \/ \E r \in ReqIds : ProbeStep(r)
  \/ \E r \in ReqIds : SocketTimeout(r)
  \/ TickLate

\* the server with the request timeout, where every upstream fetch resolves,
\* fails or is aborted and every count query answers or fails
SpecLate ==
  /\ Init
  /\ [][NextLate]_vars
  /\ \A r \in ReqIds : WF_vars(FetchStep(r)) /\ WF_vars(ProbeStep(r))

(***************************************************************************)
(* Properties                                                              *)
(***************************************************************************)
MetricStatuses == {"healthy", "warning", "critical", "unknown"}

ZeroUnknownBody(ts) ==
  [cpu |-> [usage |-> Num(0), status |-> "unknown"],
   memory |-> [percentage |-> Num(0), status |-> "unknown"],
   disk |-> [percentage |-> Num(0), status |-> "unknown"],
   uptime |-> [seconds |-> Num(0), formatted |-> "-", status |-> "unknown"],
   containers |-> [running |-> 0, total |-> 0, status |-> "unknown"],
   timestamp |-> ts]

\* C1: every response to GET /api/metrics has status 200 and a body with
\* exactly the fields cpu, memory, disk, uptime, containers and timestamp,
\* each metric with a status among healthy, warning, critical, unknown.
C1_AlwaysWellFormed ==
  (wire.req # 0 /\ reqs[wire.req].route = "metrics") =>
    /\ wire.status = 200
    /\ DOMAIN wire.body = {"cpu", "memory", "disk", "uptime", "containers", "timestamp"}
    /\ \A f \in {"cpu", "memory", "disk", "uptime", "containers"} :
         wire.body[f].status \in MetricStatuses

\* a response built from the stale cache after a failed fetch, with a failed
\* container probe
C1_Witness ==
  /\ wire.req # 0
  /\ reqs[wire.req].failed
  /\ reqs[wire.req].vm = "ok"
  /\ wire.status = 200
  /\ wire.body.containers.status = "unknown"
  /\ wire.body.cpu.status = "healthy"

C3_StaleOnError ==
  \A r \in ReqIds :
    (reqs[r].epoch > 0 /\ reqs[r].failed) =>
      reqs[r].vm = "ok" /\ "stale cache" \in reqs[r].logs

C4_Served ==
  /\ \A a \in ReqIds :
       reqs[a].hit =>
         /\ reqs[a].vm = "ok" /\ ~reqs[a].failed /\ reqs[a].stored = 0
         /\ reqs[a].vmData # JsNull
         /\ \E s \in ReqIds :
              reqs[s].stored = reqs[a].epoch /\ reqs[s].vmData = reqs[a].vmData
  /\ \A a \in ReqIds, b \in ReqIds :
       (reqs[a].hit /\ reqs[b].hit /\ reqs[a].epoch = reqs[b].epoch) =>
         reqs[a].vmData = reqs[b].vmData

\* what C4_CacheWindow says of the steps
C4_Hit ==
  \A r \in ReqIds :
    (~reqs[r].hit /\ reqs'[r].hit) =>
      /\ now - cacheTimestamp < CACHE_TTL_MS
      /\ reqs'[r].vmData = cachedMetrics
      /\ UNCHANGED <<cachedMetrics, cacheTimestamp>>

C5_Classifier ==
  call.fn = "getMetricStatus" =>
    LET p == call.arg
        AtLeast(n) == p = PosInf \/ (p.t = "number" /\ p.v >= n * 100)
    IN /\ (call.out = "critical") <=> AtLeast(90)
       /\ (call.out = "warning") <=> (AtLeast(75) /\ ~AtLeast(90))
       /\ (call.out = "healthy") <=> ~AtLeast(75)
       /\ call.out # "unknown"

\* the boundary: exactly 90 is critical
C5_Witness ==
  call.fn = "getMetricStatus" /\ call.arg = Num(9000) /\ call.out = "critical"

\* C6: for a count of s >= 0 seconds formatUptime returns "{d}d {h}h {m}m"
\* with 0 <= h < 24, 0 <= m < 60 and d days, h hours and m minutes being s
\* less its last 0..59 seconds; for a negative number, NaN or a value that
\* is no number it returns the dash.  (Infinity is not a count of seconds.)
C6_FormatUptime ==
  call.fn = "formatUptime" =>
    LET s == call.arg
    IN IF s.t = "number" /\ s.v >= 0
       THEN \E d \in 0..(s.v \div 86400), h \in 0..23, m \in 0..59 :
              /\ s.v - (d * 86400 + h * 3600 + m * 60) \in 0..59
              /\ call.out = ToString(d) \o "d " \o ToString(h) \o "h " \o ToString(m) \o "m"
       ELSE s # PosInf => call.out = "-"

\* the example of the README: 184293 s is 2d 3h 11m
C6_Witness ==
  call.fn = "formatUptime" /\ call.arg = Num(184293) /\ call.out = "2d 3h 11m"

NotANumber(x) == x.t \in {"undefined", "null", "string", "object"}

MetricFields == {"cpu", "memory", "disk", "uptime"}

\* C7: a field of the payload that is no number gives that metric value 0
\* and status unknown, and the other three metrics and the containers are
\* what they are with a number in that field.
C7_PerFieldDegradation ==
  call.fn = "metrics" =>
    LET vm == call.arg[1]
        out == call.out
        zero == ZeroUnknownBody(out.timestamp)
    IN /\ \A f \in MetricFields : NotANumber(Field(vm, f)) => out[f] = zero[f]
       /\ out.containers = call.arg[2]
       /\ vm # JsNull =>
            \A f \in MetricFields, good \in {Num(1240), Num(184293)} :
              NotANumber(vm[f]) =>
                LET alt == BuildMetrics([vm EXCEPT ![f] = good], call.arg[2], out.timestamp)
                IN /\ \A g \in MetricFields \ {f} : alt[g] = out[g]
                   /\ alt.containers = out.containers
                   /\ alt[f].status # "unknown"

\* cpu.usage_percent is a string, the other fields are as in the README
C7_Witness ==
  /\ call.fn = "metrics"
  /\ call.arg[1] = Payload(JsString, Num(5710), Num(6380), Num(184293))
  /\ call.out.cpu = [usage |-> Num(0), status |-> "unknown"]
  /\ call.out.memory = [percentage |-> Num(5710), status |-> "healthy"]
  /\ call.out.uptime.formatted = "2d 3h 11m"

IsFinite(x) == x.t = "number"

\* C8: a field of the payload that is not a finite number is reported as
\* value 0 with status unknown.
C8_FiniteValidation ==
  (wire.req # 0 /\ reqs[wire.req].vm = "ok") =>
    LET vm == reqs[wire.req].vmData
    IN /\ ~IsFinite(Field(vm, "cpu")) =>
            wire.body.cpu = [usage |-> Num(0), status |-> "unknown"]
       /\ \A f \in {"memory", "disk"} :
            ~IsFinite(Field(vm, f)) =>
              wire.body[f] = [percentage |-> Num(0), status |-> "unknown"]

InPercentRange(x) == x.t = "number" /\ x.v >= 0 /\ x.v <= 100 * 100

\* C9: cpu.usage, memory.percentage and disk.percentage of every response
\* lie in [0,100].
C9_RangeValidation ==
  (wire.req # 0 /\ reqs[wire.req].route = "metrics") =>
    /\ InPercentRange(wire.body.cpu.usage)
    /\ InPercentRange(wire.body.memory.percentage)
    /\ InPercentRange(wire.body.disk.percentage)

C11_ProbeFailure ==
  /\ call.fn = "probe" =>
       ((\E i \in 1..2 : ~call.arg[i].ok) => call.out = Return(ContainerFallback))
  /\ call.fn = "getContainerMetrics" =>
       ((\E i \in 1..2 : call.arg[i] = ExecError \/ parseInt(trim(call.arg[i])) = NaN) =>
          call.out = Return(ContainerFallback))

\* what C12_Health says of the states: a request for /health has its
\* response, and has started neither an upstream fetch nor a container probe
C12_NoWork ==
  \A r \in ReqIds :
    reqs[r].route = "health" =>
      reqs[r].sent = 1 /\ reqs[r].vm = "idle" /\ reqs[r].ct = "idle"

\* what C12_Health says of the steps: the step that takes a request for
\* /health writes status 200 and {status: 'ok', timestamp} and changes
\* neither the cache nor another request
C12_Answer ==
  \A r \in ReqIds :
    (reqs[r].route = "none" /\ reqs'[r].route = "health") =>
      /\ wire' = [req |-> r, status |-> 200, body |-> [status |-> "ok", timestamp |-> now]]
      /\ UNCHANGED <<cachedMetrics, cacheTimestamp>>
      /\ \A q \in ReqIds \ {r} : reqs'[q] = reqs[q]

\* C12: GET /health is answered 200 with {status: 'ok', timestamp} whatever
\* the state of the cache and of the other requests, and handling it starts
\* no upstream fetch and no container probe and leaves cachedMetrics and
\* cacheTimestamp unchanged.
C12_Health == []C12_NoWork /\ [][C12_Answer]_vars

\* /health answered while the upstream fetch of another request, started on
\* an empty cache, has been in flight for two seconds
C12_Witness ==
  /\ wire.req # 0
  /\ reqs[wire.req].route = "health"
  /\ wire.status = 200
  /\ \E q \in ReqIds : reqs[q].vm = "fetch" /\ now - reqs[q].at >= 2000
  /\ cachedMetrics = JsNull

ErrorTexts == {ErrorMessage(e) : e \in FetchErrors}

BodyStrings(body) ==
  {body.cpu.status, body.memory.status, body.disk.status, body.uptime.status,
   body.uptime.formatted, body.containers.status}

\* C14: the response to GET /api/metrics is the one of the run in which the
\* upstream error has any other text and the payload has only its four
\* numeric fields: it is the fallback body when fetchVMMetrics threw, and
\* else it is built from the four numeric fields and the container counts
\* alone; no string of the body is an error text or a text of the payload,
\* and the error text was written to the log.
C14_NoLeakage ==
  (wire.req # 0 /\ reqs[wire.req].route = "metrics") =>
    LET rr == reqs[wire.req]
        vm == rr.vmData
        numeric == IF vm = JsNull THEN JsNull
                   ELSE Payload(vm.cpu, vm.memory, vm.disk, vm.uptime)
    IN /\ DOMAIN wire.body = {"cpu", "memory", "disk", "uptime", "containers", "timestamp"}
       /\ BodyStrings(wire.body) \cap (ErrorTexts \cup {"vm-01.internal"}) = {}
       /\ rr.vm = "thrown" =>
            \A e \in ErrorTexts : wire = [req |-> wire.req] @@ CatchMetrics(e, now)
       /\ rr.vm = "ok" =>
            wire = [req |-> wire.req]
                     @@ MetricsResponse(BuildMetrics(numeric, rr.containers, now))
       /\ rr.error # "none" => "fetch error" \in rr.logs

\* the upstream has answered 503 on an empty cache and the request was
\* answered with the fallback body
C14_Witness ==
  /\ wire.req # 0
  /\ reqs[wire.req].vm = "thrown"
  /\ reqs[wire.req].error = "VM metrics service returned 503"
  /\ "metrics error" \in reqs[wire.req].logs
  /\ wire.body.uptime.formatted = "-"

\* C15: the global error handler answers with status err.status, or 500
\* when the error has none, and a body of exactly error and timestamp; in
\* production the error field is 'Internal server error', and when it is
\* anything else the process is not in production and it is err.message.
C15_ErrorHandler ==
  call.fn = "errorHandler" =>
    LET err == call.arg[1]
        IS_PRODUCTION == call.arg[2]
        out == call.out
    IN /\ out.status = (IF err.status = Undefined THEN 500 ELSE err.status.v)
       /\ DOMAIN out.body = {"error", "timestamp"}
       /\ IS_PRODUCTION => out.body.error = "Internal server error"
       /\ out.body.error # "Internal server error" =>
            ~IS_PRODUCTION /\ out.body.error = err.message
       /\ out.log = err.message

\* in production, a request body that is no JSON is answered 400 with the
\* fixed text
C15_Witness ==
  /\ call.fn = "errorHandler"
  /\ call.arg[2]
  /\ call.arg[1].status = Num(400)
  /\ call.out.status = 400
  /\ call.out.body.error = "Internal server error"

\* C16: when df is unavailable or fails, or the numbers cannot be parsed
\* from its output, getDiskMetrics returns {used: 245, total: 512,
\* percentage: 47.85, status: 'healthy'}; every field it returns is a
\* number, and it never throws.
C16_DiskFallback ==
  call.fn = "getDiskMetrics" =>
    LET d == call.out.value
    IN /\ ~call.out.threw
       /\ \A f \in {"used", "total", "percentage"} : d[f].t = "number"
       /\ (~call.arg.ok \/ Len(call.arg.lines) < 2) => d = DiskFallback

\* C17: while a call of fetchVMMetrics is between its freshness check and
\* its cache store, no other call does its freshness check (and fetch
\* start) or its cache store.
C17_Atomicity ==
  [][\A a \in ReqIds, b \in ReqIds :
       (a # b /\ reqs[a].vm \in {"fetch", "json"}) =>
         /\ ~(reqs[b].route = "none" /\ reqs'[b].route = "metrics")
         /\ ~(reqs[b].stored = 0 /\ reqs'[b].stored > 0)]_vars

\* C18: a call whose freshness check fails (nothing cached, or the entry
\* is CACHE_TTL_MS old or older) starts an upstream fetch of its own,
\* whatever fetches are in flight, and leaves those as they are.
C18_NoCoalescing ==
  [][\A r \in ReqIds :
       (/\ reqs[r].route = "none" /\ reqs'[r].route = "metrics"
        /\ (cachedMetrics = JsNull \/ now - cacheTimestamp >= CACHE_TTL_MS)) =>
         /\ reqs'[r].vm = "fetch" /\ reqs'[r].at = now
         /\ \A q \in ReqIds \ {r} : reqs'[q] = reqs[q]]_vars

\* two upstream fetches in flight at once, started a second apart
C18_Witness ==
  \E a \in ReqIds, b \in ReqIds :
    /\ reqs[a].vm = "fetch" /\ reqs[b].vm = "fetch"
    /\ reqs[b].at = reqs[a].at + 1000

\* the step in which the upstream fetch of r completes successfully
C19_Completes(r) ==
  reqs[r].vm = "json" /\ reqs'[r].vm = "ok" /\ ~reqs'[r].failed

\* C19: cachedMetrics and cacheTimestamp change only in the step in which
\* an upstream fetch completes successfully, which sets both, the one to
\* the payload and the other to the time the call started; every other
\* step (cache hit, failed fetch with or without stale fallback, container
\* probe, /health, unmatched route, the clock) leaves both unchanged.
C19_CacheFrame ==
  [][/\ (\A r \in ReqIds : ~C19_Completes(r)) => UNCHANGED <<cachedMetrics, cacheTimestamp>>
     /\ \A r \in ReqIds :
          C19_Completes(r) =>
            cachedMetrics' = reqs'[r].vmData /\ cacheTimestamp' = reqs[r].at]_vars

\* a fetch started at 1 s has stored the payload, and after it the fetch of
\* another call has failed and was served the stale entry
C19_Witness ==
  \E s \in ReqIds, f \in ReqIds :
    /\ reqs[s].stored > 0
    /\ reqs[f].failed /\ reqs[f].vm = "ok" /\ reqs[f].epoch > 0
    /\ cachedMetrics = reqs[s].vmData /\ cachedMetrics # JsNull
    /\ cacheTimestamp = 1000

\* C20 as claimed: the containers field of every response to GET
\* /api/metrics is the result of the request's own probe.
C20_Original ==
  (wire.req # 0 /\ reqs[wire.req].route = "metrics" /\ reqs[wire.req].ct = "done") =>
    wire.body.containers = reqs[wire.req].containers

\* C20, amended: every request for /api/metrics starts the container probe,
\* also when fetchVMMetrics is served from the cache; a response built
\* after fetchVMMetrics has returned is built after the probe has finished
\* and its containers field is the result of the request's own probe; the
\* response sent when fetchVMMetrics has thrown has the fixed containers
\* {running: 0, total: 0, status: 'unknown'}.
C20_FreshContainers ==
  /\ \A r \in ReqIds : reqs[r].route = "metrics" => reqs[r].ct # "idle"
  /\ (wire.req # 0 /\ reqs[wire.req].route = "metrics") =>
       IF reqs[wire.req].vm = "thrown"
       THEN wire.body.containers = [running |-> 0, total |-> 0, status |-> "unknown"]
       ELSE /\ reqs[wire.req].ct = "done"
            /\ wire.body.containers = reqs[wire.req].containers

\* a request served from the fresh cache is answered with the counts of its
\* own probe, which differ from those of the request that filled the cache
C20_Witness ==
  /\ wire.req # 0
  /\ reqs[wire.req].hit
  /\ wire.body.containers = [running |-> 12, total |-> 15, status |-> "warning"]
  /\ \E s \in ReqIds :
       /\ reqs[s].stored > 0 /\ reqs[s].sent = 1
       /\ reqs[s].containers = [running |-> 15, total |-> 15, status |-> "healthy"]

\* C21 as claimed: a response to GET /api/metrics is sent only after both
\* the VM-metrics source and the container probe have completed.
C21_Original ==
  (wire.req # 0 /\ reqs[wire.req].route = "metrics") =>
    reqs[wire.req].vm \in {"ok", "thrown"} /\ reqs[wire.req].ct = "done"

\* what C21_Join says of the states: a request has its response exactly
\* when fetchVMMetrics has thrown, or has returned and the probe has
\* finished
C21_Joined ==
  \A r \in ReqIds :
    reqs[r].route = "metrics" =>
      (reqs[r].sent = 1 <=>
         (reqs[r].vm = "thrown" \/ (reqs[r].vm = "ok" /\ reqs[r].ct = "done")))

\* what C21_Join says of the steps: the step that takes the request starts
\* both sources, and the step that sends the response sends the body built
\* from what the two sources returned, whichever has completed in this
\* step, or the fallback body
C21_Step ==
  \A r \in ReqIds :
    /\ (reqs[r].route = "none" /\ reqs'[r].route = "metrics") =>
         reqs'[r].ct = "exec1" /\ reqs'[r].vm \in {"fetch", "ok"}
    /\ (reqs[r].route = "metrics" /\ reqs[r].sent = 0 /\ reqs'[r].sent = 1) =>
         wire' = [req |-> r, status |-> 200,
                  body |-> IF reqs'[r].vm = "thrown" THEN ZeroUnknownBody(now)
                           ELSE BuildMetrics(reqs'[r].vmData, reqs'[r].containers, now)]

\* C21, amended: the two sources of a request are started together; when
\* fetchVMMetrics returns, the response is built and sent only after both
\* have completed, from what they returned, whichever completes first;
\* when fetchVMMetrics throws, the fallback body is sent at once, whether
\* or not the probe has completed.
C21_Join == []C21_Joined /\ [][C21_Step]_vars

\* fetchVMMetrics has returned at once from the cache, and the response
\* was sent when the probe had counted 12 of 15
C21_Witness ==
  /\ wire.req # 0
  /\ reqs[wire.req].hit
  /\ reqs[wire.req].ct = "done"
  /\ wire.body.containers = [running |-> 12, total |-> 15, status |-> "warning"]
  /\ wire.body.cpu.status = "healthy"

\* C22 as claimed: every request for /api/metrics is eventually answered.
C22_Original ==
  \A r \in ReqIds : (reqs[r].route = "metrics") ~> (reqs[r].sent = 1)

\* what C22_OneResponse says of the states: never two responses, none
\* after the socket was destroyed, at most one upstream request a call
C22_AtMostOne ==
  \A r \in ReqIds :
    /\ reqs[r].sent \in {0, 1}
    /\ reqs[r].closed => reqs[r].sent = 0
    /\ reqs[r].fetches \in {0, 1}

\* what C22_OneResponse says of the steps: the socket of a request is
\* destroyed only REQUEST_TIMEOUT_MS or more after its arrival and while
\* its container probe has not finished
C22_Closes ==
  \A r \in ReqIds :
    (~reqs[r].closed /\ reqs'[r].closed) =>
      /\ now - reqs[r].arrived >= REQUEST_TIMEOUT_MS
      /\ reqs[r].ct # "done"
      /\ reqs[r].vm \in {"ok", "thrown"} => reqs[r].vm = "ok"

\* C22, amended: every request for /api/metrics eventually has exactly one
\* response, or has none because its socket was destroyed by the request
\* timeout, which happens only when the container probe takes
\* REQUEST_TIMEOUT_MS or longer; it never has two, and a call of
\* fetchVMMetrics issues at most one upstream request.
C22_OneResponse ==
  /\ []C22_AtMostOne
  /\ [][C22_Closes]_vars
  /\ \A r \in ReqIds :
       (reqs[r].route = "metrics") ~> (reqs[r].sent = 1 \/ reqs[r].closed)

\* a request was answered after its upstream fetch had been aborted by the
\* fetch timeout, and another one has lost its socket
C22_Witness ==
  \E a \in ReqIds, b \in ReqIds :
    /\ reqs[a].sent = 1 /\ reqs[a].error = "The operation was aborted due to timeout"
    /\ reqs[b].closed /\ reqs[b].ct = "done"

\* what C23_Monotone says of the states: cachedMetrics is the payload of
\* the most recently started successful fetch (calls start in the order of
\* their numbers)
C23_LatestWins ==
  \A r \in ReqIds :
    (reqs[r].stored > 0 /\ \A q \in ReqIds : q > r => reqs[q].stored = 0) =>
      cachedMetrics = reqs[r].vmData

\* C23: across any interleaving of fetchVMMetrics calls, cacheTimestamp
\* never decreases, and cachedMetrics is always the payload of the most
\* recently started successful fetch: an older fetch that completes later
\* never overwrites the result of a newer one.
C23_Monotone ==
  /\ [][cacheTimestamp' >= cacheTimestamp]_vars
  /\ []C23_LatestWins

\* C24: whenever a successful fetch stores a cache entry, the entry is
\* fresh at that moment: a call of fetchVMMetrics made right after the
\* store would be served by the freshness branch.
C24_FreshAtStore ==
  [][\A r \in ReqIds :
       (reqs[r].stored = 0 /\ reqs'[r].stored > 0) =>
         /\ Truthy(cachedMetrics')
         /\ now' - cacheTimestamp' < CACHE_TTL_MS]_vars

\* C25: after the module of the remote variant has run, exactly one listen
\* on PORT has been attempted and the process serves: no second bind of
\* the same port, no address-in-use failure.
C25_ListenOnce ==
  (call.fn = "startup" /\ call.arg[2] = "remote") =>
    /\ call.out.listens = 1
    /\ call.out.servers = 1
    /\ call.out.state = "serving"

\* C26: in every body of /api/metrics, uptime.status is 'unknown' exactly
\* when uptime.formatted is the dash, exactly when no usable uptime (a
\* finite number of seconds that is not negative) was obtained; when
\* uptime.status is 'healthy', uptime.seconds is not negative and
\* uptime.formatted is its decomposition into days, hours and minutes.
C26_UptimeConsistent ==
  call.fn = "metrics" =>
    LET u == call.out.uptime
        given == Field(call.arg[1], "uptime")
        usable == given.t = "number" /\ given.v >= 0
    IN /\ (u.status = "unknown") <=> (u.formatted = Dash)
       /\ (u.status = "unknown") <=> ~usable
       /\ u.status = "healthy" =>
            /\ u.seconds.t = "number" /\ u.seconds.v >= 0
            /\ u.formatted = ToString(u.seconds.v \div 86400) \o "d "
                 \o ToString((u.seconds.v % 86400) \div 3600) \o "h "
                 \o ToString((u.seconds.v % 3600) \div 60) \o "m"

====
